---- MODULE Spec2Model ----
(***************************************************************************)
(* CLARA loan pipeline: the evaluator-driven retry loop of                 *)
(* LoanEligibilityChain._call (clara_agents_pipeline.py), the four stage   *)
(* agents it invokes (behavioural, decision, evaluator, report) down to    *)
(* their prompt builders and reasoning-oracle calls, and the processing    *)
(* page of the Streamlit application that runs the chain and appends the   *)
(* application record.                                                     *)
(*                                                                         *)
(* The reasoning oracle, the similarity retriever, the ledgers and the     *)
(* model artifacts are the environment: their answers are chosen           *)
(* nondeterministically from small sets.  Python exceptions are modelled   *)
(* by pc = "raised" together with the error record.                        *)
(***************************************************************************)
EXTENDS Integers, Sequences, FiniteSets, TLC

(***************************************************************************)
(* Bounds of the model.                                                    *)
(***************************************************************************)
\* max_retries is drawn from -1..MaxRetriesBound
MaxRetriesBound == 2
\* the evaluator oracle answers with an unrecognised action at most this often
MaxUnknown == 1

(***************************************************************************)
(* Values.                                                                 *)
(***************************************************************************)
ReviseActions == {"revise_profiles", "revise_decision", "revise_terms"}
KnownActions == {"approve"} \cup ReviseActions
\* an action string outside the four the loop dispatches on
UnknownAction == "escalate"
AllActions == KnownActions \cup {UnknownAction}

\* A structured response value: shape "dict" (parsed mapping), "raw" (the
\* normalizer's {raw_text: ...} wrapper), "empty" ({}), "absent" (no value).
Resp(shape, v) == [shape |-> shape, v |-> v]
NoResp == Resp("absent", 0)
EmptyDict == Resp("empty", 0)

\* The value found under the "comments" key of an evaluator verdict:
\*   kind "none": key missing (dict.get gives None)
\*   kind "str":  a string, text in field comments ("" is the empty string)
\*   kind "dict": a non-empty mapping; action/comments/prev are what
\*                .get("action", ""), .get("comments", "") and
\*                .get("prev_response_*", {}) return on it
CVal(kind, action, comments, prev) ==
    [kind |-> kind, action |-> action, comments |-> comments, prev |-> prev]
CNone == CVal("none", "", "", EmptyDict)
\* the comments values the evaluator oracle answers with
CommentValues ==
    { CVal("str", "", "", EmptyDict),
      CVal("str", "", "lower the rate", EmptyDict),
      CVal("dict", "revise_terms", "see note", Resp("dict", 1)) }

\* Evaluator verdict as stored in state["evaluation_result"].
Verdict(shape, action, comments) ==
    [shape |-> shape, action |-> action, comments |-> comments]
NoVerdict == Verdict("absent", "", CNone)
RawVerdict == Verdict("raw", "", CNone)

\* Decision record as stored in state["decision"].
\*   termKey: which key carries the loan term ("term" or "loan_term", "" none)
\*   decision: the value under the "decision" key ("" when the key is missing)
\*   shape "list": the response was a JSON array
\*   risk_score: "absent", "oracle" (value written by the oracle) or
\*               "scorer" (value written by decide from risk_assesment)
Decision(shape, termKey, decision, risk_score, v) ==
    [shape |-> shape, termKey |-> termKey, decision |-> decision,
     risk_score |-> risk_score, v |-> v]
NoDecision == Decision("absent", "", "", "absent", 0)

\* a decision value that is itself JSON text of an object with a decision key
NestedJson == "{\"decision\": \"accepted\", \"reason\": \"r\"}"
DecisionValues == {"accepted", NestedJson}

ErrorRec(type, key, stage) == [type |-> type, key |-> key, stage |-> stage]
NoError == ErrorRec("none", "", "")

\* What the reasoning oracle was given in a stage's call: whether the stage
\* is re-invoked after a verdict (retry), whether the feedback messages are
\* in the prompt (fb) and their action, comments and previous response, and
\* the retrieved cases.  own is the stage's previous response in the state
\* and ro the retriever's outcome in this invocation (decision stage).
Prompt(stage, retry, fb, action, comments, prev, own, cases) ==
    [stage |-> stage, retry |-> retry, fb |-> fb, action |-> action,
     comments |-> comments, prev |-> prev, own |-> own, cases |-> cases,
     ro |-> ""]
NoPrompt == Prompt("", FALSE, FALSE, "", "", EmptyDict, NoResp, <<>>)


(***************************************************************************)
(* State.                                                                  *)
(***************************************************************************)
VARIABLES
    max_retries,          \* LoanEligibilityChain.max_retries
    ledger,               \* state["bank_csv"], state["card_csv"]: "ok" as
                          \* uploaded, "parsed" once preprocess_user has
                          \* worked on them, or "malformed"
    artifacts,            \* the weight files read by load_weights: "ok",
                          \* "missing" or "corrupt"
    pc,                   \* "loop", "report", "returned", "raised", "result"
    retry_count,          \* state["retry_count"]
    current_step,         \* state["current_step"]
    behavioral_profiles,  \* state["behavioral_profiles"]
    user_features,        \* state["user_features"]: "absent" or "features"
    decision,             \* state["decision"]
    evaluation_result,    \* state["evaluation_result"]
    result,               \* what _call returned to the application
    applications,         \* st.session_state.applications
    error,                \* the exception that ended the run, if any
    trace,                \* history: the stage invocations of the run, in order
    lastPrompt,           \* history: what the latest oracle call was given
    llm_calls,            \* history: number of chat_model.invoke calls
    oracleFailedAt,       \* history: Len(trace) when an oracle call failed, else 0
    weight_loads,         \* history: number of load_weights calls of the process
    comments_arg,         \* history: the comments argument the latest stage
                          \* invocation was called with (none for the
                          \* evaluator and the report agent)
    call_args,            \* the arguments of a helper function called on its own
    call_result           \* what the helper returned for them, in call order

vars == <<max_retries, ledger, artifacts, pc, retry_count, current_step,
          behavioral_profiles, user_features, decision, evaluation_result,
          result, applications, error, trace, lastPrompt, llm_calls,
          oracleFailedAt, weight_loads, comments_arg, call_args,
          call_result>>

\* what no step of a pipeline run changes
config == <<max_retries, artifacts, call_args, call_result>>

Result(returned, final_report, dec) ==
    [returned |-> returned, final_report |-> final_report, decision |-> dec]
NoResult == Result(FALSE, "", "")

\* one stage invocation: the stage, the verdict's action (evaluator) and
\* retry_count when the stage was invoked
TraceEl(stage, action, rc) == [stage |-> stage, action |-> action, rc |-> rc]

\* number of invocations of a stage so far
Calls(stage) == Cardinality({i \in 1..Len(trace) : trace[i].stage = stage})
\* number of evaluator verdicts so far whose action is in the set
Verdicts(actions) ==
    Cardinality({i \in 1..Len(trace) :
                    trace[i].stage = "evaluator" /\ trace[i].action \in actions})

(***************************************************************************)
(* Pieces of the code that the actions are built from.                     *)
(***************************************************************************)
InitialStep_Decision == "decision"

\* "current_step": "behavioral" in the state _call starts from
InitialStep == "behavioral"

\* variant: the loop admits one cycle more
LoopCond_OffByOne(rc, mr) == rc <= mr + 1

\* while state["retry_count"] <= self.max_retries
LoopCond(rc, mr) == rc <= mr

\* variant: revise_profiles routed like revise_decision
NextStep_ProfilesToDecision(action, cur) ==
    CASE action \in ReviseActions -> "decision"
      [] OTHER -> cur

\* the if/elif chain on eval_action: the step the loop goes to next; an
\* action that matches no branch leaves current_step as it is
NextStep(action, cur) ==
    CASE action = "revise_profiles" -> "behavioral"
      [] action = "revise_decision" -> "decision"
      [] action = "revise_terms" -> "decision"
      [] OTHER -> cur

\* variant: the revise_terms branch does not count the retry
RetryDelta_TermsFree(action) ==
    IF action \in {"revise_profiles", "revise_decision"} THEN 1 ELSE 0

\* variant: every verdict other than approve counts a retry
RetryDelta_AnyNonApprove(action) == IF action # "approve" THEN 1 ELSE 0

\* the if/elif chain on eval_action: what is added to retry_count
RetryDelta(action) == IF action \in ReviseActions THEN 1 ELSE 0

\* variant: a verdict with an action outside the four ends the loop
AfterVerdict_UnknownEndsLoop(action, rc, mr) ==
    IF action \notin ReviseActions THEN "report"
    ELSE IF LoopCond(rc, mr) THEN "loop" ELSE "report"

\* variant: the stage a revise verdict asks for is run before the budget is
\* looked at
AfterVerdict_RunsRequestedStage(action, rc, mr) ==
    IF action = "approve" THEN "report"
    ELSE IF LoopCond(rc - 1, mr) THEN "loop" ELSE "report"

\* where _call goes after a verdict: approve invokes the report agent and
\* returns; anything else goes back to the while condition, and to the
\* report agent after the loop once the condition fails
AfterVerdict(action, rc, mr) ==
    IF action = "approve" THEN "report"
    ELSE IF LoopCond(rc, mr) THEN "loop" ELSE "report"

\* behavioral_agent lambda: supervisor_comments argument
SupervisorComments(er, rc) == IF rc > 0 THEN er.comments ELSE CNone

\* variant: comments addressed to the profiles are not handed to decide
EvaluatorComments_NotForProfiles(er) ==
    IF er.action = "revise_profiles" THEN CNone ELSE er.comments

\* decision_agent lambda: evaluator_comments argument
EvaluatorComments(er) == er.comments

\* Python truth value of a comments value ("if supervisor_comments:")
Truthy(c) == c.kind = "dict" \/ (c.kind = "str" /\ c.comments # "")

\* build_behavioural_json_prompt / build_decision_prompt: the feedback
\* messages.  A truthy value is read with .get(...), which a str lacks.
BuildFeedback(c) ==
    IF ~Truthy(c)
    THEN [raised |-> FALSE, fb |-> FALSE, action |-> "", comments |-> "",
          prev |-> EmptyDict]
    ELSE IF c.kind = "str"
    THEN [raised |-> TRUE, fb |-> FALSE, action |-> "", comments |-> "",
          prev |-> EmptyDict]
    ELSE [raised |-> FALSE, fb |-> TRUE, action |-> c.action,
          comments |-> c.comments, prev |-> c.prev]

\* normalize_json on the oracle's text: a JSON text gives its parsed value,
\* anything else the raw_text wrapper
NormalizeJson(out, raw) == IF out.text = "json" THEN out.value ELSE raw

\* variant: a failed oracle call is caught and its text wrapped
AgentCall_Swallow(out, raw) ==
    [raised |-> FALSE, value |-> NormalizeJson(out, raw)]

\* run_agent: chat_model.invoke(prompt), then normalize_json(response.content);
\* an exception of the oracle call is not caught
AgentCall(out, raw) ==
    [raised |-> out.text = "fail", value |-> NormalizeJson(out, raw)]

\* the similar cases a successful search returns
Cases == <<"case_1", "case_2">>
RetrieverOutcomes == {"ok", "client_fail", "embed_fail", "search_fail"}

\* retrieve_similar_cases: try/except around client.search
RetrieveSimilarCases(outcome) == IF outcome = "ok" THEN Cases ELSE <<>>

\* variant: get_rag_params called outside the try
DecideRetrieval_NoTry(outcome) ==
    [raised |-> outcome \in {"client_fail", "embed_fail"},
     cases |-> RetrieveSimilarCases(outcome)]

\* decide, lines 146-156: retrieved_cases = []; try get_rag_params and
\* retrieve_similar_cases; except Exception: print
DecideRetrieval(outcome) ==
    [raised |-> FALSE,
     cases |-> IF outcome \in {"client_fail", "embed_fail"}
               THEN <<>> ELSE RetrieveSimilarCases(outcome)]


PreprocessFrames_Lenient(frames) ==
    [raised |-> FALSE,
     frames |-> IF frames = "malformed" THEN "malformed" ELSE "parsed"]

\* preprocess_user works on the frames the state holds, not on copies:
\* pd.to_datetime of the date columns is assigned back into both frames and
\* a month column is added to the bank frame; a missing column or an
\* unparseable date raises at the first of these statements
PreprocessFrames(frames) ==
    [raised |-> frames = "malformed",
     frames |-> IF frames = "malformed" THEN "malformed" ELSE "parsed"]

\* load_weights: zipfile.ZipFile / joblib.load on the five weight files; a
\* file that is not there or cannot be unpickled raises the loader's own
\* exception
LoadWeights(art) ==
    [raised |-> art # "ok",
     exc |-> IF art = "missing" THEN "FileNotFoundError"
             ELSE IF art = "corrupt" THEN "UnpicklingError" ELSE ""]

\* risk_assesment: its first statement is load_weights(), which opens the
\* weight files on every call
RiskAssesment(art) ==
    [raised |-> LoadWeights(art).raised, exc |-> LoadWeights(art).exc,
     risk_score |-> "scorer", loads |-> 1]

\* variant: a risk_score the oracle wrote is kept
SetRiskScore_KeepOracle(dec, score) ==
    [raised |-> dec.shape = "list",
     value |-> IF dec.risk_score = "absent"
               THEN [dec EXCEPT !.risk_score = score] ELSE dec]

\* decide: decision['risk_score'] = risk_score on what normalize_json made
\* of the oracle's response; item assignment with a str key raises
\* TypeError on a list
SetRiskScore(dec, score) ==
    [raised |-> dec.shape = "list",
     value |-> [dec EXCEPT !.risk_score = score]]

\* json.loads on the decision value in the processing page
IsJsonText(v) == v = NestedJson
\* keys of the mapping chain(inputs) returns: the inputs and output_keys
ResultKeys == {"input_data", "bank_csv", "card_csv", "chat_history",
               "final_report", "decision"}

(***************************************************************************)
(* Answers of the reasoning oracle.                                        *)
(***************************************************************************)
Out(text, value) == [text |-> text, value |-> value]

BehavioralOutputs ==
    {Out("json", Resp("dict", v)) : v \in 1..2}
    \cup {Out("garbage", NoResp), Out("fail", NoResp)}

DecisionOutputs ==
    {Out("json", Decision("dict", "term", dv, "absent", 1)) : dv \in DecisionValues}
    \cup {Out("json", Decision("dict", "term", "accepted", "oracle", 2)),
          Out("json", Decision("dict", "loan_term", "accepted", "absent", 1)),
          Out("json", Decision("list", "", "", "absent", 0)),
          Out("garbage", NoDecision), Out("fail", NoDecision)}

EvaluatorOutputs ==
    {Out("json", Verdict("dict", a, c)) : a \in AllActions, c \in CommentValues}
    \cup {Out("garbage", NoVerdict), Out("fail", NoVerdict)}

ReportOutputs == {Out("text", "report"), Out("fail", "")}

(***************************************************************************)
(* Actions.                                                                *)
(***************************************************************************)
Init ==
    /\ max_retries \in -1..MaxRetriesBound
    /\ ledger \in {"ok", "malformed"}
    /\ artifacts \in {"ok", "missing", "corrupt"}
    /\ retry_count = 0
    /\ current_step = InitialStep
    /\ pc = IF LoopCond(0, max_retries) THEN "loop" ELSE "report"
    /\ behavioral_profiles = NoResp
    /\ user_features = "absent"
    /\ decision = NoDecision
    /\ evaluation_result = NoVerdict
    /\ result = NoResult
    /\ applications = <<>>
    /\ error = NoError
    /\ trace = <<>>
    /\ lastPrompt = NoPrompt
    /\ llm_calls = 0
    /\ oracleFailedAt = 0
    /\ weight_loads = 0
    /\ comments_arg = CNone
    /\ call_args = <<>>
    /\ call_result = <<>>

\* an exception leaves _call: the run is over, nothing is returned; frames
\* is what the ledgers in the session look like by then
RaiseFrames(err, tr, frames) ==
    /\ pc' = "raised"
    /\ error' = err
    /\ trace' = tr
    /\ ledger' = frames
    /\ UNCHANGED <<config, retry_count, current_step, behavioral_profiles,
                   user_features, decision, result, applications>>

Raise(err, tr) == RaiseFrames(err, tr, ledger)

\* history: an oracle call that failed is recorded with the position of its
\* stage in the trace
FailedAt(out, tr) == IF out.text = "fail" THEN Len(tr) ELSE oracleFailedAt

\* the oracle call of a stage failed
OracleRaise(stage, tr, prompt, n) ==
    /\ Raise(ErrorRec("OracleError", "", stage), tr)
    /\ lastPrompt' = prompt
    /\ llm_calls' = llm_calls + n
    /\ oracleFailedAt' = Len(tr)

\* a failure before the stage's oracle call
EarlyRaiseWith(err, tr, prompt) ==
    /\ Raise(err, tr)
    /\ lastPrompt' = prompt
    /\ UNCHANGED <<llm_calls, oracleFailedAt>>

EarlyRaise(err, tr) == EarlyRaiseWith(err, tr, NoPrompt)

\* current_step == "behavioral": behavioral_agent.invoke(state), that is
\* extract_behavioural_features(bank, card, supervisor_comments)
BehavioralStep ==
    /\ pc = "loop"
    /\ current_step = "behavioral"
    /\ UNCHANGED weight_loads
    /\ comments_arg' = SupervisorComments(evaluation_result, retry_count)
    /\ LET tr == Append(trace, TraceEl("behavioral", "", retry_count))
           sc == SupervisorComments(evaluation_result, retry_count)
           fbk == BuildFeedback(sc)
           prompt == Prompt("behavioral", retry_count > 0, fbk.fb, fbk.action,
                            fbk.comments, fbk.prev, behavioral_profiles, <<>>)
           pp == PreprocessFrames(ledger)
       IN  IF pp.raised
           THEN /\ RaiseFrames(ErrorRec("MalformedLedger", "date", "behavioral"),
                               tr, pp.frames)
                /\ lastPrompt' = NoPrompt
                /\ UNCHANGED <<evaluation_result, llm_calls, oracleFailedAt>>
           ELSE IF fbk.raised
           THEN /\ RaiseFrames(ErrorRec("AttributeError", "get", "behavioral"),
                               tr, pp.frames)
                /\ lastPrompt' = NoPrompt
                /\ UNCHANGED <<evaluation_result, llm_calls, oracleFailedAt>>
           ELSE \E out \in BehavioralOutputs :
                  LET r == AgentCall(out, Resp("raw", 0))
                  IN  IF r.raised
                      THEN /\ RaiseFrames(ErrorRec("OracleError", "", "behavioral"),
                                          tr, pp.frames)
                           /\ lastPrompt' = prompt
                           /\ llm_calls' = llm_calls + 1
                           /\ oracleFailedAt' = Len(tr)
                           /\ UNCHANGED evaluation_result
                      ELSE /\ behavioral_profiles' = r.value
                           /\ user_features' = "features"
                           /\ current_step' = "decision"
                           /\ ledger' = pp.frames
                           /\ trace' = tr
                           /\ lastPrompt' = prompt
                           /\ llm_calls' = llm_calls + 1
                           /\ oracleFailedAt' = FailedAt(out, tr)
                           /\ UNCHANGED <<config, pc, retry_count, decision,
                                          evaluation_result, result,
                                          applications, error>>


\* current_step == "decision": decision_agent.invoke(state), that is
\* decide(loan_data, user_features, behavioural_profiles, evaluator_comments):
\* retrieval, risk_assesment, the decision oracle, then the three
\* run_evaluation oracle calls on the decision
DecisionStep ==
    /\ pc = "loop"
    /\ current_step = "decision"
    /\ comments_arg' = EvaluatorComments(evaluation_result)
    /\ \E ro \in RetrieverOutcomes :
       LET tr == Append(trace, TraceEl("decision", "", retry_count))
           rt == DecideRetrieval(ro)
           rk == RiskAssesment(artifacts)
           fbk == BuildFeedback(EvaluatorComments(evaluation_result))
           prompt == [Prompt("decision", evaluation_result.shape # "absent",
                             fbk.fb, fbk.action, fbk.comments, fbk.prev,
                             decision, rt.cases) EXCEPT !.ro = ro]
           noPrompt == [NoPrompt EXCEPT !.ro = ro]
       IN  IF rt.raised
           THEN /\ EarlyRaiseWith(ErrorRec("RetrievalError", ro, "decision"), tr, noPrompt)
                /\ UNCHANGED <<evaluation_result, weight_loads>>
           ELSE /\ weight_loads' = weight_loads + rk.loads
                /\ IF rk.raised
                   THEN /\ EarlyRaiseWith(ErrorRec(rk.exc, "weights", "decision"), tr, noPrompt)
                        /\ UNCHANGED evaluation_result
                   ELSE IF fbk.raised
                   THEN /\ EarlyRaiseWith(ErrorRec("AttributeError", "get", "decision"), tr, noPrompt)
                        /\ UNCHANGED evaluation_result
                   ELSE \E out \in DecisionOutputs, n \in 0..3 :
                          LET r == AgentCall(out, Decision("raw", "", "", "absent", 0))
                          IN  IF r.raised
                              THEN /\ n = 0
                                   /\ OracleRaise("decision", tr, prompt, 1)
                                   /\ UNCHANGED evaluation_result
                              ELSE IF SetRiskScore(r.value, rk.risk_score).raised
                              THEN /\ n = 0
                                   /\ Raise(ErrorRec("TypeError", "risk_score", "decision"), tr)
                                   /\ lastPrompt' = prompt
                                   /\ llm_calls' = llm_calls + 1
                                   /\ UNCHANGED <<evaluation_result, oracleFailedAt>>
                              ELSE IF n < 3
                              \* the (n+1)-th run_evaluation call failed
                              THEN /\ OracleRaise("decision", tr, prompt, 2 + n)
                                   /\ UNCHANGED evaluation_result
                              ELSE /\ decision' = SetRiskScore(r.value, rk.risk_score).value
                                   /\ current_step' = "evaluator"
                                   /\ trace' = tr
                                   /\ lastPrompt' = prompt
                                   /\ llm_calls' = llm_calls + 4
                                   /\ oracleFailedAt' = FailedAt(out, tr)
                                   /\ UNCHANGED <<config, ledger, pc, retry_count,
                                                  behavioral_profiles, user_features,
                                                  evaluation_result, result,
                                                  applications, error>>

\* current_step == "evaluator": evaluator_agent.invoke(state), the read of
\* evaluation_result["action"] and the if/elif chain on it
EvaluatorStep ==
    /\ pc = "loop"
    /\ current_step = "evaluator"
    /\ UNCHANGED weight_loads
    /\ comments_arg' = CNone
    /\ LET prompt == Prompt("evaluator", FALSE, FALSE, "", "", EmptyDict,
                            evaluation_result, <<>>)
           tr0 == Append(trace, TraceEl("evaluator", "", retry_count))
       IN  IF decision.shape # "dict"
           THEN /\ EarlyRaise(ErrorRec("KeyError", "interest_rate", "evaluator"), tr0)
                /\ UNCHANGED evaluation_result
           ELSE IF decision.termKey # "term"
           THEN /\ EarlyRaise(ErrorRec("KeyError", "term", "evaluator"), tr0)
                /\ UNCHANGED evaluation_result
           ELSE \E out \in EvaluatorOutputs :
                  LET r == AgentCall(out, RawVerdict)
                      er == r.value
                      tr == Append(trace, TraceEl("evaluator", er.action, retry_count))
                      rc == retry_count + RetryDelta(er.action)
                  IN  /\ (er.action = UnknownAction
                             => Verdicts({UnknownAction}) < MaxUnknown)
                      /\ IF r.raised
                         THEN /\ OracleRaise("evaluator", tr0, prompt, 1)
                              /\ UNCHANGED evaluation_result
                         ELSE IF er.shape # "dict"
                         THEN /\ Raise(ErrorRec("KeyError", "action", "evaluator"), tr)
                              /\ evaluation_result' = er
                              /\ lastPrompt' = prompt
                              /\ llm_calls' = llm_calls + 1
                              /\ oracleFailedAt' = FailedAt(out, tr)
                         ELSE /\ evaluation_result' = er
                              /\ retry_count' = rc
                              /\ current_step' = NextStep(er.action, current_step)
                              /\ pc' = AfterVerdict(er.action, rc, max_retries)
                              /\ trace' = tr
                              /\ lastPrompt' = prompt
                              /\ llm_calls' = llm_calls + 1
                              /\ oracleFailedAt' = FailedAt(out, tr)
                              /\ UNCHANGED <<config, ledger, behavioral_profiles,
                                             user_features, decision, result,
                                             applications, error>>

\* report_agent.invoke(state) and the return of _call, on approve or after
\* the loop
ReportStep ==
    /\ pc = "report"
    /\ UNCHANGED weight_loads
    /\ comments_arg' = CNone
    /\ LET tr == Append(trace, TraceEl("report", "", retry_count))
           prompt == Prompt("report", FALSE, FALSE, "", "", EmptyDict, NoResp, <<>>)
       IN  IF behavioral_profiles.shape = "absent"
           THEN /\ EarlyRaise(ErrorRec("KeyError", "behavioral_profiles", "report"), tr)
                /\ UNCHANGED evaluation_result
           ELSE \E out \in ReportOutputs :
                  IF out.text = "fail"
                  THEN /\ OracleRaise("report", tr, prompt, 1)
                       /\ UNCHANGED evaluation_result
                  ELSE IF decision.decision = ""
                  THEN /\ Raise(ErrorRec("KeyError", "decision", "report"), tr)
                       /\ lastPrompt' = prompt
                       /\ llm_calls' = llm_calls + 1
                       /\ UNCHANGED <<evaluation_result, oracleFailedAt>>
                  ELSE /\ result' = Result(TRUE, out.value, decision.decision)
                       /\ pc' = "returned"
                       /\ trace' = tr
                       /\ lastPrompt' = prompt
                       /\ llm_calls' = llm_calls + 1
                       /\ UNCHANGED <<config, ledger, retry_count, current_step,
                                      behavioral_profiles, user_features,
                                      decision, evaluation_result,
                                      applications, error, oracleFailedAt>>

\* clara_app.py, processing page, after chain(inputs) returned: parse the
\* decision, read the profiles from the result, append the application record
ProcessingPage ==
    /\ pc = "returned"
    /\ UNCHANGED <<weight_loads, comments_arg>>
    /\ IF ~IsJsonText(result.decision)
       THEN /\ pc' = "raised"
            /\ error' = ErrorRec("JSONDecodeError", "decision", "app")
            /\ UNCHANGED applications
       ELSE IF "behavioral_profiles" \notin ResultKeys
       THEN /\ pc' = "raised"
            /\ error' = ErrorRec("KeyError", "behavioral_profiles", "app")
            /\ UNCHANGED applications
       ELSE /\ pc' = "result"
            /\ applications' = Append(applications, "accepted")
            /\ UNCHANGED error
    /\ UNCHANGED <<config, ledger, retry_count, current_step, behavioral_profiles,
                   user_features, decision, evaluation_result, result, trace,
                   lastPrompt, llm_calls, oracleFailedAt>>

Next ==
    \/ BehavioralStep
    \/ DecisionStep
    \/ EvaluatorStep
    \/ ReportStep
    \/ ProcessingPage

Spec == Init /\ [][Next]_vars


(***************************************************************************)
(* Properties.                                                             *)
(***************************************************************************)
Last == trace[Len(trace)]

\* C1: in a run whose evaluator verdicts are never approve (whatever else
\* they are), the evaluator is invoked at most max_retries+1 times, and when
\* _call returns it has been invoked exactly max_retries+1 times.
C1_BoundedEvaluations ==
    Verdicts({"approve"}) = 0 =>
        /\ Calls("evaluator") <= max_retries + 1
        /\ result.returned => Calls("evaluator") = max_retries + 1

\* C2: every verdict whose action is not approve, recognised or not,
\* consumes one retry: retry_count is the number of non-approve verdicts
\* received so far.
C2_UnknownConsumesRetry ==
    retry_count = Verdicts(AllActions \ {"approve"})

\* C3: after a revise_profiles verdict with retry budget remaining the
\* stages invoked next are behavioral, decision, evaluator in that order;
\* after revise_decision or revise_terms they are decision, evaluator, with
\* no behavioral invocation in between.
C3_Route(action) ==
    IF action = "revise_profiles"
    THEN <<"behavioral", "decision", "evaluator">>
    ELSE <<"decision", "evaluator">>

C3_Routing ==
    \A i \in 1..Len(trace) :
        (/\ trace[i].stage = "evaluator"
         /\ trace[i].action \in ReviseActions
         /\ trace[i].rc + 1 <= max_retries) =>
            LET route == C3_Route(trace[i].action)
            IN  /\ \A j \in 1..Len(route) :
                      i + j <= Len(trace) => trace[i + j].stage = route[j]
                /\ i = Len(trace) => (pc = "loop" /\ current_step = route[1])

C3_Witness ==
    /\ \E i \in 1..Len(trace) :
          trace[i].action = "revise_profiles" /\ i + 3 <= Len(trace)
    /\ \E i \in 1..Len(trace) :
          trace[i].action \in {"revise_decision", "revise_terms"}
          /\ i + 2 <= Len(trace)

\* C4: when _call returns after k recognised revise verdicts followed by
\* approve, k <= max_retries, the evaluator and the decision stage were each
\* invoked k+1 times, the behavioral stage 1 + (number of revise_profiles
\* verdicts) times, the report stage once, and retry_count is k.
C4_StageCounts ==
    (/\ result.returned
     /\ Verdicts({"approve"}) = 1
     /\ Verdicts({UnknownAction}) = 0) =>
        LET k == Verdicts(ReviseActions)
        IN  /\ k <= max_retries
            /\ Calls("evaluator") = k + 1
            /\ Calls("decision") = k + 1
            /\ Calls("behavioral") = 1 + Verdicts({"revise_profiles"})
            /\ Calls("report") = 1
            /\ retry_count = k

C4_Witness ==
    /\ result.returned
    /\ Verdicts({"approve"}) = 1
    /\ Verdicts({UnknownAction}) = 0
    /\ Verdicts({"revise_terms"}) = 1
    /\ Verdicts(ReviseActions) = 1
    /\ Calls("decision") = 2
    /\ Calls("behavioral") = 1

\* C5: with max_retries >= 0, retry_count stays within 0..max_retries+1,
\* the behavioral, decision and evaluator stages are invoked only with
\* retry_count <= max_retries, and once retry_count exceeds max_retries the
\* loop is left and only the report stage is invoked.
C5_RetryBound ==
    max_retries >= 0 =>
        /\ 0 <= retry_count
        /\ retry_count <= max_retries + 1
        /\ \A i \in 1..Len(trace) :
              /\ trace[i].stage \in {"behavioral", "decision", "evaluator"}
                    => trace[i].rc <= max_retries
              /\ trace[i].rc > max_retries => trace[i].stage = "report"
        /\ retry_count > max_retries => pc # "loop"

C5_Witness ==
    /\ max_retries >= 1
    /\ retry_count = max_retries + 1
    /\ Len(trace) > 0
    /\ Last.stage = "report"
    /\ Last.rc = max_retries + 1

\* C6: a completed behavioral step sets current_step to decision and a
\* completed decision step sets it to evaluator, both without changing
\* retry_count; retry_count changes only in an evaluator step, by exactly
\* +1 and only on a revise_profiles, revise_decision or revise_terms
\* verdict; retry_count is always the number of revise verdicts so far.
C6_StepEffect ==
    LET invoked == Len(trace') = Len(trace) + 1
        stage == trace'[Len(trace')].stage
    IN  /\ (invoked /\ stage = "behavioral" /\ pc' # "raised")
              => (current_step' = "decision" /\ retry_count' = retry_count)
        /\ (invoked /\ stage = "decision" /\ pc' # "raised")
              => (current_step' = "evaluator" /\ retry_count' = retry_count)
        /\ retry_count' # retry_count
              => /\ invoked
                 /\ stage = "evaluator"
                 /\ retry_count' = retry_count + 1
                 /\ evaluation_result'.action \in ReviseActions
        /\ retry_count' = Verdicts(ReviseActions)'

C6_FrameEffect == [][C6_StepEffect]_vars

C6_Witness ==
    /\ retry_count = 2
    /\ Verdicts(ReviseActions) = 2
    /\ Verdicts({UnknownAction}) = 1
    /\ Verdicts({"approve"}) = 1

\* C7: when the behavioral or decision stage is re-invoked after a revise
\* verdict that carries comments, its oracle call is made with the feedback
\* messages, and these hold the verdict's action, the verdict's comment text
\* and the stage's own previous response.
C7_FeedbackThreaded ==
    (/\ Len(trace) > 0
     /\ Last.stage \in {"behavioral", "decision"}
     /\ Last.rc > 0
     /\ evaluation_result.action \in ReviseActions
     /\ Truthy(evaluation_result.comments)) =>
        /\ lastPrompt.stage = Last.stage
        /\ lastPrompt.fb
        /\ lastPrompt.action = evaluation_result.action
        /\ evaluation_result.comments.kind = "str"
        /\ lastPrompt.comments = evaluation_result.comments.comments
        /\ lastPrompt.prev = lastPrompt.own

\* C8: the run never raises because a stage's oracle output was unparseable:
\* no exception comes from reading a key of a raw_text wrapper stored as
\* the decision or as the evaluation result.
C8_RawTextNeverFatal ==
    ~(/\ pc = "raised"
      /\ error.type = "KeyError"
      /\ \/ error.key = "action" /\ evaluation_result.shape = "raw"
         \/ error.key = "interest_rate" /\ decision.shape = "raw")

\* C9: when the retriever fails in a decision invocation (client
\* construction, embedding or search), the failure does not end the run,
\* the oracle is given the empty case list, and unless the scorer, the
\* prompt or the oracle fails the stage stores a decision and the loop goes
\* on to the evaluator.
C9_RetrieverNonFatal ==
    (/\ Len(trace) > 0
     /\ Last.stage = "decision"
     /\ lastPrompt.ro \in RetrieverOutcomes \ {"ok"}) =>
        /\ error.type # "RetrievalError"
        /\ lastPrompt.cases = <<>>
        /\ pc # "raised" =>
              /\ pc = "loop"
              /\ current_step = "evaluator"
              /\ lastPrompt.stage = "decision"
              /\ decision.shape \in {"dict", "raw"}
              /\ decision.risk_score = "scorer"

C9_Witness ==
    /\ Len(trace) > 0
    /\ Last.stage = "decision"
    /\ lastPrompt.ro = "client_fail"
    /\ lastPrompt.stage = "decision"
    /\ lastPrompt.cases = <<>>
    /\ pc = "loop"
    /\ current_step = "evaluator"
    /\ decision.shape = "dict"

\* C10: once an oracle call has failed in any stage the run has ended with
\* that exception: no stage is invoked after the failing one, _call returns
\* no report, and no application record has been appended.
C10_OracleFailureAborts ==
    oracleFailedAt > 0 =>
        /\ pc = "raised"
        /\ error.type = "OracleError"
        /\ Len(trace) = oracleFailedAt
        /\ ~result.returned
        /\ applications = <<>>

C10_Witness ==
    /\ oracleFailedAt > 0
    /\ pc = "raised"
    /\ error.stage = "evaluator"
    /\ Calls("decision") = 2
    /\ llm_calls = 11

(***************************************************************************)
(* The response normalizer, normalize_json, on its own.  A text is a       *)
(* sequence of tokens: the JSON punctuation, the quote and the backslash   *)
(* as characters, the words json and null, the code fence, the blank, and  *)
(* a run of digits longer than the interpreter converts to an int.         *)
(* A Python value is a record: its type, its JSON text (for a string, its  *)
(* characters), what json.dumps makes of it, and its identity (1 for the   *)
(* object handed in, 0 for a value the call created).                      *)
(***************************************************************************)
\* texts handed in are a frame around every token string of at most MaxLen
MaxLen == 3

LB == "{"
RB == "}"
LS == "["
RS == "]"
QT == "\""
BS == "\\"
WJ == "json"
WN == "null"
\* the three backquotes that open or close a fenced block
FN == "fence"
SP == " "
\* more digits than int() accepts from a string (sys.get_int_max_str_digits)
WD == "digits"
Alphabet == {LB, RB, LS, RS, QT, BS, WJ, WN, FN, SP, WD}

PyVal(type, text, py, id) == [type |-> type, text |-> text, py |-> py, id |-> id]
\* None: what json.loads gives for null, and what the helpers return when
\* they found nothing
PyNone == PyVal("null", <<WN>>, "plain", 0)
\* {"raw_text": text}
RawText(text) == PyVal("dict", text, "raw_text", 0)
\* an exception on its way out of the function
PyExc(exc) == PyVal("exception", <<exc>>, "plain", 0)

RECURSIVE StripLeft(_)
StripLeft(s) == IF s # <<>> /\ Head(s) = SP THEN StripLeft(Tail(s)) ELSE s
RECURSIVE StripRight(_)
StripRight(s) ==
    IF s # <<>> /\ s[Len(s)] = SP THEN StripRight(SubSeq(s, 1, Len(s) - 1)) ELSE s
\* str.strip()
Strip(s) == StripRight(StripLeft(s))

\* json.loads: the decoder on the token alphabet (objects without members,
\* arrays of at most one element, strings with the escapes \", \\ and \n,
\* null, and the number too long to convert, on which int() raises
\* ValueError)
RECURSIVE SkipWs(_, _)
SkipWs(s, i) == IF i <= Len(s) /\ s[i] = SP THEN SkipWs(s, i + 1) ELSE i

\* the index after the closing quote of the string whose body starts at j,
\* 0 if the string is not terminated or holds an invalid escape
\* (a backslash before the word null is the escape \n and the letters ull)
RECURSIVE StringEnd(_, _)
StringEnd(s, j) ==
    IF j > Len(s) THEN 0
    ELSE IF s[j] = QT THEN j + 1
    ELSE IF s[j] = BS
         THEN IF j + 1 <= Len(s) /\ s[j + 1] \in {QT, BS, WN}
              THEN StringEnd(s, j + 2)
              ELSE 0
    ELSE StringEnd(s, j + 1)

\* the index after the JSON value that starts at i, 0 if there is none,
\* -1 if the decoder came to convert the long number
RECURSIVE ValueEnd(_, _)
ValueEnd(s, i) ==
    IF i > Len(s) THEN 0
    ELSE IF s[i] = LB
         THEN LET j == SkipWs(s, i + 1)
              IN  IF j <= Len(s) /\ s[j] = RB THEN j + 1 ELSE 0
    ELSE IF s[i] = LS
         THEN LET j == SkipWs(s, i + 1)
              IN  IF j <= Len(s) /\ s[j] = RS
                  THEN j + 1
                  ELSE LET e == ValueEnd(s, j)
                           k == SkipWs(s, e)
                       IN  IF e = -1 THEN -1
                           ELSE IF e # 0 /\ k <= Len(s) /\ s[k] = RS
                           THEN k + 1
                           ELSE 0
    ELSE IF s[i] = QT THEN StringEnd(s, i + 1)
    ELSE IF s[i] = WN THEN i + 1
    ELSE IF s[i] = WD THEN -1
    ELSE 0

\* the text is one JSON value with blanks around it
JsonValid(s) ==
    LET e == ValueEnd(s, SkipWs(s, 1))
    IN  e > 0 /\ SkipWs(s, e) = Len(s) + 1

\* the text of a valid JSON value without its insignificant blanks
RECURSIVE Canon(_, _, _)
Canon(s, i, in_str) ==
    IF i > Len(s) THEN <<>>
    ELSE IF in_str
         THEN IF s[i] = BS
              THEN <<s[i], s[i + 1]>> \o Canon(s, i + 2, TRUE)
              ELSE <<s[i]>> \o Canon(s, i + 1, s[i] # QT)
    ELSE IF s[i] = SP THEN Canon(s, i + 1, FALSE)
    ELSE <<s[i]>> \o Canon(s, i + 1, s[i] = QT)

JsonType(c) ==
    IF c[1] = LB THEN "dict"
    ELSE IF c[1] = LS THEN "list"
    ELSE IF c[1] = QT THEN "str"
    ELSE "null"

\* json.loads(s): the value, or the exception raised
JsonLoads(s) ==
    IF JsonValid(s)
    THEN LET c == Canon(s, 1, FALSE)
         IN  [ok |-> TRUE, exc |-> "", value |-> PyVal(JsonType(c), c, "plain", 0)]
    ELSE [ok |-> FALSE,
          exc |-> IF ValueEnd(s, SkipWs(s, 1)) = -1
                  THEN "ValueError"
                  ELSE "JSONDecodeError",
          value |-> PyNone]

\* the first index from i on that holds one of the tokens, 0 if none does
RECURSIVE Find(_, _, _)
Find(s, i, tokens) ==
    IF i > Len(s) THEN 0
    ELSE IF s[i] \in tokens THEN i
    ELSE Find(s, i + 1, tokens)

\* re.findall of fence, optional label, blanks, shortest content, blanks,
\* fence: the contents of the non-overlapping fenced blocks, left to right
RECURSIVE FencedBlocks(_, _)
FencedBlocks(s, i) ==
    LET p == Find(s, i, {FN})
        q == IF p = 0 THEN 0 ELSE Find(s, p + 1, {FN})
    IN  IF p = 0 \/ q = 0
        THEN <<>>
        ELSE LET c == IF s[p + 1] = WJ THEN p + 2 ELSE p + 1
             IN  <<Strip(SubSeq(s, c, q - 1))>> \o FencedBlocks(s, q + 1)

\* the loop of _parse_from_fences: return json.loads(block) for the first
\* block that decodes, continue on JSONDecodeError, None after the last block
RECURSIVE FirstDecoded(_)
FirstDecoded(blocks) ==
    IF blocks = <<>> THEN PyNone
    ELSE LET r == JsonLoads(Head(blocks))
         IN  IF r.ok THEN r.value
             ELSE IF r.exc = "JSONDecodeError" THEN FirstDecoded(Tail(blocks))
             ELSE PyExc(r.exc)

ParseFromFences(s) == FirstDecoded(FencedBlocks(s, 1))

\* the scan of _parse_first_balanced_json from index i: the index at which
\* the depth of the opening bracket's type is back to 0, 0 if it never is
RECURSIVE RegionEnd(_, _, _, _, _, _)
RegionEnd(s, i, opening, depth, in_str, esc) ==
    LET closing == IF opening = LB THEN RB ELSE RS
    IN  IF i > Len(s) THEN 0
        ELSE IF in_str
             THEN IF esc THEN RegionEnd(s, i + 1, opening, depth, TRUE, FALSE)
                  ELSE IF s[i] = BS
                       THEN RegionEnd(s, i + 1, opening, depth, TRUE, TRUE)
                  ELSE IF s[i] = QT
                       THEN RegionEnd(s, i + 1, opening, depth, FALSE, FALSE)
                  ELSE RegionEnd(s, i + 1, opening, depth, TRUE, FALSE)
        ELSE IF s[i] = QT
             THEN RegionEnd(s, i + 1, opening, depth, TRUE, FALSE)
        ELSE IF s[i] = opening
             THEN RegionEnd(s, i + 1, opening, depth + 1, FALSE, FALSE)
        ELSE IF s[i] = closing
             THEN IF depth - 1 = 0
                  THEN i
                  ELSE RegionEnd(s, i + 1, opening, depth - 1, FALSE, FALSE)
        ELSE RegionEnd(s, i + 1, opening, depth, FALSE, FALSE)

ParseFirstBalancedJson_BracesOnly(text) ==
    LET s == Strip(text)
        start == Find(s, 1, {LB})
    IN  IF start = 0 THEN PyNone
        ELSE LET e == RegionEnd(s, start, s[start], 0, FALSE, FALSE)
             IN  IF e = 0 THEN PyNone
                 ELSE LET r == JsonLoads(SubSeq(s, start, e))
                      IN  IF r.ok THEN r.value
                          ELSE IF r.exc = "JSONDecodeError" THEN PyNone
                          ELSE PyExc(r.exc)

\* _parse_first_balanced_json: the earliest of s.find("{") and s.find("["),
\* the scan from there, json.loads on the region; None when there is no
\* bracket, no end, or a decode error
ParseFirstBalancedJson(text) ==
    LET s == Strip(text)
        start == Find(s, 1, {LB, LS})
    IN  IF start = 0 THEN PyNone
        ELSE LET e == RegionEnd(s, start, s[start], 0, FALSE, FALSE)
             IN  IF e = 0 THEN PyNone
                 ELSE LET r == JsonLoads(SubSeq(s, start, e))
                      IN  IF r.ok THEN r.value
                          ELSE IF r.exc = "JSONDecodeError" THEN PyNone
                          ELSE PyExc(r.exc)

\* 2d: the wrapper holds obj, the string as it was handed in
Fallback(text, s) == RawText(text)

\* Case 2 of normalize_json: s = obj.strip(), then 2a to 2d; the handlers
\* are for JSONDecodeError, any other exception leaves the function
ParseString(text) ==
    LET s == Strip(text)
        direct == JsonLoads(s)
        fenced == ParseFromFences(s)
        balanced == ParseFirstBalancedJson(s)
    IN  IF direct.ok THEN direct.value
        ELSE IF direct.exc # "JSONDecodeError" THEN PyExc(direct.exc)
        ELSE IF fenced # PyNone THEN fenced
        ELSE IF balanced # PyNone THEN balanced
        ELSE Fallback(text, s)

IsContainer_DictOnly(obj) == obj.type = "dict"

\* isinstance(obj, (dict, list))
IsContainer(obj) == obj.type \in {"dict", "list"}

\* json.dumps(obj): TypeError for a value that holds something json cannot
\* encode
JsonDumps(obj) ==
    [exc |-> IF obj.py = "unser" THEN "TypeError" ELSE "", text |-> obj.text]

\* str(obj)
StrOf(obj) == <<"<", obj.type, ">">>

\* Case 3: json.loads(json.dumps(obj)), except Exception the wrapper around
\* str(obj); a tuple comes back as a list, keys come back as strings
DumpsLoads(obj) ==
    LET d == JsonDumps(obj)
    IN  IF d.exc = ""
        THEN PyVal(IF obj.type = "tuple" THEN "list" ELSE obj.type, d.text,
                   "plain", 0)
        ELSE RawText(StrOf(obj))

\* what a call gave: raised is TRUE when an exception left the function
Ret(value) == [raised |-> value.type = "exception", value |-> value]

\* src/agent/utils.py
normalize_json(obj) ==
    IF IsContainer(obj) THEN Ret(obj)
    ELSE IF obj.type = "str" THEN Ret(ParseString(obj.text))
    ELSE Ret(DumpsLoads(obj))

\* src/utils.py: the string case is json.loads(obj) or the wrapper
utils_normalize_json(obj) ==
    IF IsContainer(obj) THEN Ret(obj)
    ELSE IF obj.type = "str"
         THEN LET r == JsonLoads(obj.text)
              IN  Ret(IF r.ok THEN r.value
                      ELSE IF r.exc = "JSONDecodeError" THEN RawText(obj.text)
                      ELSE PyExc(r.exc))
    ELSE Ret(DumpsLoads(obj))

\* every token string of length at most n
RECURSIVE Strings(_)
Strings(n) ==
    IF n = 0 THEN {<<>>}
    ELSE LET S == Strings(n - 1)
         IN  S \cup {Append(w, t) : w \in {x \in S : Len(x) = n - 1},
                                    t \in Alphabet}

\* what stands before and after the enumerated part of a text: nothing,
\* blanks, prose and fences, a bracket pair before a fenced block, a fenced
\* null before a second block, an array holding a string, a value before
\* an array
Frames ==
    { <<<<>>, <<>>>>,
      <<<<SP>>, <<SP>>>>,
      <<<<WJ, FN>>, <<FN, WJ>>>>,
      <<<<FN, WJ>>, <<FN>>>>,
      <<<<LS, RS, FN>>, <<FN>>>>,
      <<<<FN, WN, FN, FN>>, <<FN>>>>,
      <<<<WJ, LS, QT>>, <<QT, RS>>>>,
      <<<<WJ, LS, QT, BS, QT>>, <<QT, RS>>>>,
      <<<<WN, LS>>, <<RS>>>> }

Texts == {f[1] \o w \o f[2] : f \in Frames, w \in Strings(MaxLen)}

\* the arguments that are not strings: containers that json would carry
\* over unchanged, would re-key, or cannot encode; a tuple, an int, None and
\* an object json cannot encode
OtherArgs ==
    { PyVal("dict", <<LB, RB>>, "plain", 1),
      PyVal("dict", <<LB, RB>>, "rekeyed", 1),
      PyVal("dict", <<LB, RB>>, "unser", 1),
      PyVal("list", <<LS, RS>>, "plain", 1),
      PyVal("list", <<LS, LS, RS, RS>>, "unser", 1),
      PyVal("tuple", <<LS, RS>>, "plain", 1),
      PyVal("int", <<"1">>, "plain", 1),
      PyVal("null", <<WN>>, "plain", 0),
      PyVal("object", <<>>, "unser", 1) }

NormalizeArgs == {PyVal("str", t, "plain", 1) : t \in Texts} \cup OtherArgs

(***************************************************************************)
(* Helper functions called on their own: the pipeline is idle, call_args   *)
(* holds the arguments and call_result the results in call order.          *)
(***************************************************************************)
run == <<max_retries, ledger, artifacts, pc, retry_count, current_step,
         behavioral_profiles, user_features, decision, evaluation_result,
         result, applications, error, trace, lastPrompt, llm_calls,
         oracleFailedAt, weight_loads, comments_arg>>

Idle ==
    /\ max_retries = 0
    /\ ledger = "ok"
    /\ artifacts = "ok"
    /\ pc = "idle"
    /\ retry_count = 0
    /\ current_step = "behavioral"
    /\ behavioral_profiles = NoResp
    /\ user_features = "absent"
    /\ decision = NoDecision
    /\ evaluation_result = NoVerdict
    /\ result = NoResult
    /\ applications = <<>>
    /\ error = NoError
    /\ trace = <<>>
    /\ lastPrompt = NoPrompt
    /\ llm_calls = 0
    /\ oracleFailedAt = 0
    /\ weight_loads = 0
    /\ comments_arg = CNone

Called(fn, ret) == [fn |-> fn, ret |-> ret]

InitNormalize ==
    /\ Idle
    /\ call_args \in NormalizeArgs
    /\ call_result = <<>>

\* normalize_json(obj) of src/agent/utils.py
CallNormalizeJson ==
    /\ call_result = <<>>
    /\ call_result' = <<Called("agent/utils", normalize_json(call_args))>>
    /\ UNCHANGED <<run, call_args>>

\* normalize_json(obj) of src/utils.py
CallUtilsNormalizeJson ==
    /\ call_result = <<>>
    /\ call_result' = <<Called("utils", utils_normalize_json(call_args))>>
    /\ UNCHANGED <<run, call_args>>

NextNormalize == CallNormalizeJson \/ CallUtilsNormalizeJson

SpecNormalize == InitNormalize /\ [][NextNormalize]_vars

\* a call has returned
Returned == call_result # <<>>
Ret1 == call_result[1].ret

(***************************************************************************)
(* C13: containers pass through.                                           *)
(***************************************************************************)
\* C13: for a dict or a list, either normalize_json returns the argument
\* itself: the same object with the same content, not a re-encoded copy
C13_ContainerPassThrough ==
    (Returned /\ call_args.type \in {"dict", "list"}) =>
        /\ ~Ret1.raised
        /\ Ret1.value = call_args

C13_Witness ==
    /\ Returned
    /\ call_args.type = "list"
    /\ call_args.py = "unser"
    /\ Ret1.value = call_args

(***************************************************************************)
(* C14: the fallback wrapper.                                              *)
(***************************************************************************)
\* every strategy failed on the text
AllFail(text) ==
    LET s == Strip(text)
    IN  /\ JsonLoads(s).exc = "JSONDecodeError"
        /\ ParseFromFences(s) = PyNone
        /\ ParseFirstBalancedJson(s) = PyNone

\* what is returned when nothing raised: a string on which every strategy
\* fails comes back as {"raw_text": obj} with the string as handed in, blanks
\* included; a value that is neither string nor container and that json
\* cannot encode comes back as {"raw_text": str(obj)}
C14_FallbackKeepsOriginal ==
    Returned =>
        /\ (call_result[1].fn = "agent/utils" /\ call_args.type = "str"
              /\ AllFail(call_args.text)) =>
             Ret1.value = RawText(call_args.text)
        /\ (call_args.type \notin {"str", "dict", "list"}
              /\ call_args.py = "unser") =>
             Ret1.value = RawText(StrOf(call_args))

\* C14: no call of normalize_json raises, and the fallback wrapper holds the
\* original string, or str(obj) for a value json cannot encode
C14_NeverRaisesFallback ==
    /\ Returned => ~Ret1.raised
    /\ C14_FallbackKeepsOriginal

(***************************************************************************)
(* C15: the order of the strategies on a string.                           *)
(***************************************************************************)
\* the fenced blocks of the text whose content decodes
Decodable(blocks) == {i \in 1..Len(blocks) : JsonValid(blocks[i])}
\* those that decode to something other than null
DecodableNonNull(blocks) ==
    {i \in Decodable(blocks) : JsonLoads(blocks[i]).value # PyNone}
First(S) == CHOOSE i \in S : \A j \in S : i <= j

\* the result of strategy 3, and of the fallback when it fails
BalancedOrFallback(text) ==
    LET balanced == ParseFirstBalancedJson(Strip(text))
    IN  IF balanced # PyNone THEN balanced ELSE RawText(text)

\* C15: on a string the result is that of the first strategy that succeeds:
\* the strict parse of the trimmed text, else the first fenced block whose
\* content parses, else the first balanced region, else the wrapper.  A
\* block that parses to null is allowed to count either as a success (the
\* result is null) or as a failure (the next parsing block is taken, or the
\* later strategies when there is none)
C15_FirstSuccessfulStrategy ==
    (Returned /\ call_result[1].fn = "agent/utils" /\ call_args.type = "str"
       /\ ~Ret1.raised) =>
        LET s == Strip(call_args.text)
            direct == JsonLoads(s)
            blocks == FencedBlocks(s, 1)
            dec == Decodable(blocks)
            nonnull == DecodableNonNull(blocks)
        IN  IF direct.ok THEN Ret1.value = direct.value
            ELSE IF dec # {}
                 THEN \/ Ret1.value = JsonLoads(blocks[First(dec)]).value
                      \/ /\ nonnull # {}
                         /\ Ret1.value = JsonLoads(blocks[First(nonnull)]).value
                      \/ /\ nonnull = {}
                         /\ Ret1.value = BalancedOrFallback(call_args.text)
            ELSE Ret1.value = BalancedOrFallback(call_args.text)

\* the same order on the texts whose first parsing block, if any, is not null
C15_OrderWithoutNullBlock ==
    (Returned /\ call_result[1].fn = "agent/utils" /\ call_args.type = "str"
       /\ ~Ret1.raised) =>
        LET s == Strip(call_args.text)
            direct == JsonLoads(s)
            blocks == FencedBlocks(s, 1)
            dec == Decodable(blocks)
        IN  IF direct.ok THEN Ret1.value = direct.value
            ELSE IF dec # {}
                 THEN JsonLoads(blocks[First(dec)]).value # PyNone =>
                        Ret1.value = JsonLoads(blocks[First(dec)]).value
            ELSE Ret1.value = BalancedOrFallback(call_args.text)

(***************************************************************************)
(* C16: the type of what is returned.                                      *)
(***************************************************************************)
\* C16: whatever the argument, what normalize_json returns is a dict or a
\* list
C16_ReturnsDictOrList ==
    (Returned /\ ~Ret1.raised) => Ret1.value.type \in {"dict", "list"}


(***************************************************************************)
(* The rule profiler, infer_rule_based_profiles, on its own.  A feature is *)
(* a numpy float64 as preprocess_user produces it: NaN or a finite number, *)
(* held in millionths; a quotient is NaN, an infinity or a fraction.       *)
(***************************************************************************)
\* one in millionths
Micro == 1000000
\* the 1e-6 added to both means
Eps == 1
\* 0.1, 0.3, 0.1 and 0.4 in tenths
StabilityThreshold == 1
VolatilityThreshold == 3
SavingsThreshold == 1
ConcentrationThreshold == 4

Fin(v) == [k |-> "fin", v |-> v]
NaN == [k |-> "nan", v |-> 0]

\* x + 1e-6
AddEps(x) == IF x.k = "fin" THEN Fin(x.v + Eps) ELSE x

Quot(k, n, d) == [k |-> k, n |-> n, d |-> d]

FDiv_PythonFloat(x, y) ==
    IF x.k = "nan" \/ y.k = "nan" THEN Quot("nan", 0, 1)
    ELSE IF y.v = 0 THEN Quot("ZeroDivisionError", 0, 1)
    ELSE IF y.v > 0 THEN Quot("fin", x.v, y.v)
    ELSE Quot("fin", -x.v, -y.v)

\* x / y on float64: a zero divisor gives an infinity or NaN with a
\* warning, never an exception
FDiv(x, y) ==
    IF x.k = "nan" \/ y.k = "nan" THEN Quot("nan", 0, 1)
    ELSE IF y.v = 0
         THEN IF x.v = 0 THEN Quot("nan", 0, 1)
              ELSE IF x.v > 0 THEN Quot("inf", 0, 1)
              ELSE Quot("ninf", 0, 1)
    ELSE IF y.v > 0 THEN Quot("fin", x.v, y.v)
    ELSE Quot("fin", -x.v, -y.v)

\* q < t and q > t, t in tenths: False whenever q is NaN
QLess(q, t) ==
    IF q.k = "fin" THEN q.n * 10 < t * q.d ELSE q.k = "ninf"
QGreater(q, t) ==
    IF q.k = "fin" THEN q.n * 10 > t * q.d ELSE q.k = "inf"
\* x > t for a feature
FGreater(x, t) == x.k = "fin" /\ x.v * 10 > t * Micro

\* int(b)
IntOf(b) == IF b THEN 1 ELSE 0

infer_rule_based_profiles(features) ==
    LET qi == FDiv(features.income_std, AddEps(features.income_mean))
        qe == FDiv(features.expense_std, AddEps(features.expense_mean))
    IN  IF "ZeroDivisionError" \in {qi.k, qe.k}
        THEN [raised |-> TRUE, income_stability |-> 0, expense_volatility |-> 0,
              savings_habit |-> 0, category_concentration_risk |-> 0]
        ELSE [raised |-> FALSE,
              income_stability |-> IntOf(QLess(qi, StabilityThreshold)),
              expense_volatility |-> IntOf(QGreater(qe, VolatilityThreshold)),
              savings_habit |->
                  IntOf(FGreater(features.savings_rate_mean, SavingsThreshold)),
              category_concentration_risk |->
                  IntOf(FGreater(features.top_category_share,
                                 ConcentrationThreshold))]

\* the feature vectors handed in: standard deviations and means that are
\* NaN, zero, small or large, a mean of -1e-6 (the sum with 1e-6 is zero),
\* rates and shares below, at and above their thresholds
StdValues == {NaN, Fin(0), Fin(50000), Fin(500000)}
MeanValues == {NaN, Fin(-Eps), Fin(0), Fin(Micro)}
RateValues == {NaN, Fin(-200000), Fin(100000), Fin(200000)}
ShareValues == {NaN, Fin(400000), Fin(Micro)}
FeatureVectors ==
    [income_std : StdValues, income_mean : MeanValues,
     expense_std : StdValues, expense_mean : MeanValues,
     savings_rate_mean : RateValues, top_category_share : ShareValues]

InitProfiles ==
    /\ Idle
    /\ call_args \in FeatureVectors
    /\ call_result = <<>>

CallInferRuleBasedProfiles ==
    /\ call_result = <<>>
    /\ call_result' =
           <<Called("infer_rule_based_profiles",
                    infer_rule_based_profiles(call_args))>>
    /\ UNCHANGED <<run, call_args>>

NextProfiles == CallInferRuleBasedProfiles

SpecProfiles == InitProfiles /\ [][NextProfiles]_vars

(***************************************************************************)
(* C17: the rule profiler is total.                                        *)
(***************************************************************************)
\* C17: for every feature vector, NaN entries and a zero divisor included,
\* the call does not raise, each of the four flags is 0 or 1, and a flag
\* whose comparison involves a NaN feature is 0
C17_ProfilesTotal ==
    Returned =>
        LET f == call_args
            r == Ret1
        IN  /\ ~r.raised
            /\ \A flag \in {r.income_stability, r.expense_volatility,
                            r.savings_habit, r.category_concentration_risk} :
                  flag \in {0, 1}
            /\ (NaN \in {f.income_std, f.income_mean}) => r.income_stability = 0
            /\ (NaN \in {f.expense_std, f.expense_mean}) => r.expense_volatility = 0
            /\ f.savings_rate_mean = NaN => r.savings_habit = 0
            /\ f.top_category_share = NaN => r.category_concentration_risk = 0

\* a vector with a NaN standard deviation, a zero divisor and a NaN rate
C17_Witness ==
    /\ Returned
    /\ call_args.income_std = NaN
    /\ call_args.expense_std = Fin(500000)
    /\ call_args.expense_mean = Fin(-Eps)
    /\ call_args.savings_rate_mean = NaN
    /\ Ret1.income_stability = 0
    /\ Ret1.expense_volatility = 1
    /\ Ret1.savings_habit = 0


(***************************************************************************)
(* The feature extractor, preprocess_user, on its own.  A ledger is given  *)
(* by its calendar months: for the bank ledger the number of transactions  *)
(* of the month with their income, expense and credit-card-payment totals, *)
(* for the card ledger the amount paid per category.  The frames are the   *)
(* two DataFrames the pipeline state holds: preprocess_user writes to      *)
(* them.  Of the output features the means and shares are modelled; the    *)
(* standard deviations, the trends and last3_category_shares are further   *)
(* functions of the same inputs.                                           *)
(***************************************************************************)
\* the ledgers span the calendar months 1..MaxMonths
MaxMonths == 4
\* month_counts.head(3)
HeadMonths == 3

Months == 1..MaxMonths
Categories == {"Dining", "Groceries"}

\* the bank transactions of one month: none, one card payment without
\* income, two transactions with income
BankGroup(n, income, expense, cc) ==
    [n |-> n, income |-> income, expense |-> expense, cc |-> cc]
BankGroups ==
    {BankGroup(0, 0, 0, 0), BankGroup(1, 0, 5, 5), BankGroup(2, 10, 5, 0)}
\* the card spend of one month per category
CardGroups ==
    { [c \in Categories |-> 0],
      [c \in Categories |-> IF c = "Dining" THEN 4 ELSE 0],
      [c \in Categories |-> IF c = "Groceries" THEN 4 ELSE 0] }

\* the frames as read from the uploaded files by pd.read_csv: dates are
\* strings, the bank frame has the columns of the file
UploadedFrames ==
    { [bank_dates |-> "str", card_dates |-> "str",
       bank_columns |-> {"date", "description", "income", "expense", "balance"},
       bank |-> b, card |-> c] :
        b \in {x \in [Months -> BankGroups] : \E m \in Months : x[m].n > 0},
        c \in [Months -> CardGroups] }

\* pd.to_datetime of a date column: strings are parsed, timestamps stay
ToDatetime(dates) == "datetime64"

\* month_counts.sort_values(ascending=False).head(3).index: the months with
\* the most transactions, the earlier month first among equal counts
TopMonths(bank) ==
    LET active == {m \in Months : bank[m].n > 0}
        before(m) == {x \in active : \/ bank[x].n > bank[m].n
                                     \/ bank[x].n = bank[m].n /\ x < m}
    IN  {m \in active : Cardinality(before(m)) < HeadMonths}

Min(S) == CHOOSE x \in S : \A y \in S : x <= y
Max(S) == CHOOSE x \in S : \A y \in S : x >= y

\* the columns of bank_monthly next to date: those the agg dict names
BankMonthlyColumns(columns) == {"income", "expense", "balance"}

\* the columns that are not categories
NotCategories ==
    {"date", "income", "expense", "balance", "net_savings", "savings_rate",
     "overdraft", "total_card_spend"}

\* Series.replace(0, np.nan)
ReplaceZero(x) == IF x = Fin(0) THEN NaN ELSE x

\* fillna(0) on a quotient
FillNa(q) == IF q.k = "nan" THEN Quot("fin", 0, 1) ELSE q

QAdd(a, b) == Quot("fin", a.n * b.d + b.n * a.d, a.d * b.d)
RECURSIVE QSum(_)
QSum(qs) == IF qs = <<>> THEN Quot("fin", 0, 1) ELSE QAdd(Head(qs), QSum(Tail(qs)))
\* Series.mean(): NaN entries are skipped, NaN when nothing is left
QMean(qs) ==
    LET kept == SelectSeq(qs, LAMBDA q : q.k # "nan")
        total == QSum(kept)
    IN  IF kept = <<>> THEN Quot("nan", 0, 1)
        ELSE Quot("fin", total.n, total.d * Len(kept))

RECURSIVE Sum(_)
Sum(xs) == IF xs = <<>> THEN 0 ELSE Head(xs) + Sum(Tail(xs))

\* the sum of f over the set S
RECURSIVE SumOver(_, _)
SumOver(f, S) ==
    IF S = {} THEN 0
    ELSE LET x == CHOOSE y \in S : TRUE IN f[x] + SumOver(f, S \ {x})

\* the months and the category columns of card_monthly: what occurs in the
\* card ledger
CardMonths(card) == {m \in Months : \E c \in Categories : card[m][c] > 0}
CardCategories(card) == {c \in Categories : \E m \in Months : card[m][c] > 0}

\* categories: the columns of the merged table outside the fixed list
CategoryColumns(frames) ==
    (BankMonthlyColumns(frames.bank_columns) \cup CardCategories(frames.card))
        \ NotCategories

\* the row of month m after the merge with card_monthly and fillna(0), with
\* net_savings, savings_rate and the category shares: bank_monthly has a
\* row for every month start from the first to the last kept month, a
\* month without kept transactions sums to 0; a month without card rows is
\* filled with 0
MergedRow(frames, top, m) ==
    LET cats == CategoryColumns(frames)
        spend == [c \in cats |->
                     IF c \in Categories /\ m \in CardMonths(frames.card)
                     THEN frames.card[m][c] ELSE 0]
        total == IF m \in CardMonths(frames.card)
                 THEN SumOver(frames.card[m], CardCategories(frames.card))
                 ELSE 0
        income == IF m \in top THEN frames.bank[m].income ELSE 0
        expense == IF m \in top THEN frames.bank[m].expense ELSE 0
    IN  [date |-> m, income |-> income, expense |-> expense,
         spend |-> spend, total_card_spend |-> total,
         net_savings |-> income - expense,
         savings_rate |-> FDiv(Fin(income - expense), ReplaceZero(Fin(income))),
         share |-> [c \in cats |-> FDiv(Fin(spend[c]), ReplaceZero(Fin(total)))]]

\* df.merge(monthly_cc_payment, how="left").fillna(0): the payments to the
\* card of the month, and 0 for every NaN of the row, whatever its column
CcMergeFillNa(row, frames, top) ==
    [date |-> row.date, income |-> row.income, expense |-> row.expense,
     spend |-> row.spend, total_card_spend |-> row.total_card_spend,
     net_savings |-> row.net_savings,
     savings_rate |-> FillNa(row.savings_rate),
     share |-> [c \in DOMAIN row.share |-> FillNa(row.share[c])],
     cc_payment |-> IF row.date \in top THEN frames.bank[row.date].cc ELSE 0]

\* the monthly table df when the features are computed from it
MonthlyTable(frames) ==
    LET top == TopMonths(frames.bank)
        lo == Min(top)
        hi == Max(top)
    IN  [i \in 1..(hi - lo + 1) |->
            LET row == CcMergeFillNa(MergedRow(frames, top, lo + i - 1), frames, top)
            IN  [date |-> row.date, income |-> row.income,
                 expense |-> row.expense, spend |-> row.spend,
                 total_card_spend |-> row.total_card_spend,
                 net_savings |-> row.net_savings,
                 savings_rate |-> row.savings_rate, share |-> row.share,
                 cc_payment |-> row.cc_payment,
                 cc_payment_ratio |->
                     FDiv(Fin(row.cc_payment),
                          ReplaceZero(Fin(row.total_card_spend)))]]

Column(table, name) == [i \in 1..Len(table) |-> table[i][name]]

DiscretionaryWords == {"Entertainment", "Travel", "Dining"}

\* [c for c in df.columns if "Entertainment" in c or "Travel" in c or
\* "Dining" in c]: the test is on the column name, so next to the spend
\* column of such a category its <category>_share column is selected too
DiscretionaryColumns(cats) ==
    [spend |-> cats \cap DiscretionaryWords,
     share |-> cats \cap DiscretionaryWords]

\* df[columns].sum().sum(): the column sums, added up
SumOfColumns(table, columns) ==
    LET rows == 1..Len(table)
        spent == Sum([i \in rows |-> SumOver(table[i].spend, columns.spend)])
        shares(c) == QSum([i \in rows |-> table[i].share[c]])
        RECURSIVE Shares(_)
        Shares(S) ==
            IF S = {} THEN Quot("fin", 0, 1)
            ELSE LET c == CHOOSE x \in S : TRUE
                 IN  QAdd(shares(c), Shares(S \ {c}))
    IN  QAdd(Quot("fin", spent, 1), Shares(columns.share))

\* numerator / denominator on float64, the numerator a quotient
QDiv(q, x) ==
    IF x.v = 0
    THEN IF q.n = 0 THEN Quot("nan", 0, 1)
         ELSE IF q.n > 0 THEN Quot("inf", 0, 1) ELSE Quot("ninf", 0, 1)
    ELSE Quot("fin", q.n, q.d * x.v)

\* the features dict, from the table
Features(table, cats) ==
    LET total == Sum(Column(table, "total_card_spend"))
        sums == {Sum([i \in 1..Len(table) |-> table[i].spend[c]]) : c \in cats}
    IN  [discretionary_share |->
             QDiv(SumOfColumns(table, DiscretionaryColumns(cats)), Fin(total)),
         income_mean |-> Quot("fin", Sum(Column(table, "income")), Len(table)),
         expense_mean |-> Quot("fin", Sum(Column(table, "expense")), Len(table)),
         savings_rate_mean |-> QMean(Column(table, "savings_rate")),
         top_category_share |->
             IF cats # {} THEN FDiv(Fin(Max(sums)), Fin(total))
             ELSE Quot("fin", 0, 1),
         cc_payment_ratio_mean |-> QMean(Column(table, "cc_payment_ratio"))]

InPlace_NegatesExpense(frames) ==
    [frames EXCEPT !.bank_dates = ToDatetime(@),
                   !.card_dates = ToDatetime(@),
                   !.bank_columns = @ \cup {"month"},
                   !.bank = [m \in Months |->
                                [@[m] EXCEPT !.expense = 0 - @]]]

\* the statements that assign into the caller's frames: both date columns
\* are converted and the bank frame gets a month column; the filter on the
\* kept months works on a copy
InPlace(frames) ==
    [frames EXCEPT !.bank_dates = ToDatetime(@),
                   !.card_dates = ToDatetime(@),
                   !.bank_columns = @ \cup {"month"}]

\* preprocess_user(bank_df, card_df): what it returns, the table and the
\* category list it computed on the way, and the caller's frames afterwards
preprocess_user(frames) ==
    LET dated == InPlace(frames)
        table == MonthlyTable(dated)
        cats == CategoryColumns(dated)
    IN  [features |-> Features(table, cats), table |-> table,
         categories |-> cats, frames |-> dated]

InitFeatures ==
    /\ Idle
    /\ call_args \in UploadedFrames
    /\ call_result = <<>>

\* the behavioural stage calls preprocess_user on the frames of the state:
\* in the first invocation and, after revise_profiles, once more
CallPreprocessUser ==
    /\ Len(call_result) < 2
    /\ LET r == preprocess_user(call_args)
       IN  /\ call_result' =
                  Append(call_result,
                         Called("preprocess_user",
                                [features |-> r.features, table |-> r.table,
                                 categories |-> r.categories]))
           /\ call_args' = r.frames
    /\ UNCHANGED run

NextFeatures == CallPreprocessUser

SpecFeatures == InitFeatures /\ [][NextFeatures]_vars

(***************************************************************************)
(* C18: undefined ratios in the monthly table.                             *)
(***************************************************************************)
\* C18: in the table the features are computed from, savings_rate is NaN in
\* every month whose income is 0 and every category share is NaN in every
\* month whose total_card_spend is 0
C18_UndefinedRatiosStayNaN ==
    \A k \in 1..Len(call_result) :
        LET table == call_result[k].ret.table
        IN  \A i \in 1..Len(table) :
                /\ table[i].income = 0 => table[i].savings_rate.k = "nan"
                /\ table[i].total_card_spend = 0 =>
                       \A c \in DOMAIN table[i].share : table[i].share[c].k = "nan"

Missing == "n/a"

\* the values a field of the form can hold
Forms ==
    [loan_amount : {"10000", Missing},
     job_tenure : {"< 1 year", "10+ years", "3 years", "unknown", Missing},
     annual_income : {"50000", Missing},
     monthly_debt : {"500", Missing},
     delinquencies : {"no", "yes", "unknown"},
     accounts : {"4", Missing},
     bankruptcy : {"no", "yes", "unknown"},
     loan_term : {"36 months", "months", Missing}]

\* the number a numeric field holds, NaN when it is missing
NumberOf(val) ==
    IF val = Missing THEN NaN
    ELSE IF val = "10000" THEN Fin(10000)
    ELSE IF val = "50000" THEN Fin(50000)
    ELSE IF val = "500" THEN Fin(500)
    ELSE Fin(4)

\* Series.map({"no": 0, "yes": 1}): NaN for any other value
YesNo(val) ==
    IF val = "no" THEN Fin(0) ELSE IF val = "yes" THEN Fin(1) ELSE NaN

\* parse_emp_length, in tenths of a year
ParseEmpLength(val) ==
    IF val = Missing THEN NaN
    ELSE IF val = "< 1 year" THEN Fin(5)
    ELSE IF val = "10+ years" THEN Fin(100)
    ELSE IF val = "3 years" THEN Fin(30)
    ELSE NaN

\* parse_term: the digits of the text, NaN when there are none
ParseTerm(val) ==
    IF val = Missing THEN NaN
    ELSE IF val = "36 months" THEN Fin(36)
    ELSE NaN

\* monthly_debt / annual_income, in percent
DebtToIncome(debt, income) ==
    IF debt = NaN \/ income = NaN THEN NaN
    ELSE Fin((debt.v * 100) \div income.v)

numeric_cols ==
    {"Amount Requested", "Employment Length", "annual_inc",
     "Debt-To-Income Ratio", "delinq_2yrs", "num_actv_bc_tl",
     "pub_rec_bankruptcies", "term"}

\* df[numeric_cols] of the one-row frame before the imputation
ParsedRow(form) ==
    [col \in numeric_cols |->
        IF col = "Amount Requested" THEN NumberOf(form.loan_amount)
        ELSE IF col = "Employment Length" THEN ParseEmpLength(form.job_tenure)
        ELSE IF col = "annual_inc" THEN NumberOf(form.annual_income)
        ELSE IF col = "Debt-To-Income Ratio"
             THEN DebtToIncome(NumberOf(form.monthly_debt),
                               NumberOf(form.annual_income))
        ELSE IF col = "delinq_2yrs" THEN YesNo(form.delinquencies)
        ELSE IF col = "num_actv_bc_tl" THEN NumberOf(form.accounts)
        ELSE IF col = "pub_rec_bankruptcies" THEN YesNo(form.bankruptcy)
        ELSE ParseTerm(form.loan_term)]

\* df[numeric_cols].median(): the median of each column of the frame at
\* hand, NaN entries skipped; the frame is pd.DataFrame([form_data]), one
\* row, so the median of a column is its only value, NaN when that is NaN
Median(frame, col) ==
    LET present == SelectSeq(frame, LAMBDA row : row[col] # NaN)
    IN  IF present = <<>> THEN NaN ELSE present[1][col]

\* df[numeric_cols].fillna(df[numeric_cols].median())
Imputed(frame) ==
    [i \in 1..Len(frame) |->
        [col \in numeric_cols |->
            IF frame[i][col] = NaN THEN Median(frame, col) ELSE frame[i][col]]]

\* the numeric columns of X_interest and X_risk, the rows handed to the two
\* models
NumericFeatures(form) == Imputed(<<ParsedRow(form)>>)[1]

InitRisk ==
    /\ Idle
    /\ call_args \in Forms
    /\ call_result = <<>>

CallRiskAssesment ==
    /\ call_result = <<>>
    /\ call_result' = <<Called("risk_assesment", NumericFeatures(call_args))>>
    /\ UNCHANGED <<run, call_args>>

NextRisk == CallRiskAssesment

SpecRisk == InitRisk /\ [][NextRisk]_vars

(***************************************************************************)
(* C20: imputation of missing numeric fields.                              *)
(***************************************************************************)
\* C20: whatever fields of the application are missing or unparseable, no
\* numeric column of the row handed to the models is missing: each such
\* field holds the column's median instead
C20_MissingImputed ==
    Returned => \A col \in numeric_cols : Ret1[col] # NaN


(***************************************************************************)
(* C11: a malformed ledger ends the run in the first behavioural stage,    *)
(* before any oracle call.                                                 *)
(***************************************************************************)
\* C11: with a malformed ledger no oracle call is ever made and nothing is
\* returned; as soon as a stage has been invoked (max_retries >= 0) the run
\* has raised MalformedLedger in the behavioural stage, and that stage is the
\* only invocation of the run
C11_MalformedLedgerFailsEarly ==
    ledger = "malformed" =>
        /\ llm_calls = 0
        /\ pc \notin {"returned", "result"}
        /\ (max_retries >= 0 /\ trace # <<>>) =>
              /\ pc = "raised"
              /\ trace = <<TraceEl("behavioral", "", 0)>>
              /\ error = ErrorRec("MalformedLedger", "date", "behavioral")

C11_Witness ==
    /\ ledger = "malformed"
    /\ pc = "raised"
    /\ error.type = "MalformedLedger"
    /\ llm_calls = 0

(***************************************************************************)
(* C12: what a stage invocation changes in the state.                      *)
(***************************************************************************)
\* the keys of the state other than the outputs of the stage that ran are
\* the same before and after the invocation
C12_StepEffect ==
    Len(trace') = Len(trace) + 1 =>
        LET stage == trace'[Len(trace')].stage
        IN  /\ ledger' = ledger
            /\ stage = "behavioral" =>
                  /\ decision' = decision
                  /\ evaluation_result' = evaluation_result
                  /\ retry_count' = retry_count
            /\ stage = "decision" =>
                  /\ behavioral_profiles' = behavioral_profiles
                  /\ user_features' = user_features
                  /\ evaluation_result' = evaluation_result
                  /\ retry_count' = retry_count
            /\ stage = "evaluator" =>
                  /\ behavioral_profiles' = behavioral_profiles
                  /\ user_features' = user_features
                  /\ decision' = decision

\* C12: every stage invocation leaves the ledgers, retry_count and the other
\* stages' outputs as they were
C12_StagesChangeOnlyOwnKeys == [][C12_StepEffect]_vars

(***************************************************************************)
(* C21: scoring with a missing or malformed artifact.                      *)
(***************************************************************************)
\* what is left of a run whose decision stage was invoked with an
\* unusable artifact: the stage failed, nothing was substituted for the
\* scores, no decision was stored and nothing was returned
C21_Aborted ==
    /\ pc = "raised"
    /\ error.stage = "decision"
    /\ error.key = "weights"
    /\ Last.stage = "decision"
    /\ decision = NoDecision
    /\ ~result.returned
    /\ applications = <<>>

\* C21: when a scoring artifact is missing or malformed, scoring fails with
\* a ModelUnavailable error, no default score is substituted and the
\* decision stage produces no decision: the run aborts.
C21_ModelUnavailable ==
    (artifacts # "ok" /\ Calls("decision") > 0) =>
        (C21_Aborted /\ error.type = "ModelUnavailable")

\* the same with the exception the code raises: the loader's own
C21_LoaderErrorAborts ==
    (artifacts # "ok" /\ Calls("decision") > 0) =>
        (C21_Aborted /\ error.type = LoadWeights(artifacts).exc)

(***************************************************************************)
(* C22: the weights are loaded once.                                       *)
(***************************************************************************)
\* C22: the frozen model artifacts are loaded exactly once per process:
\* however often the decision stage is invoked, the number of load
\* operations is 1.
C22_LoadedOnce ==
    Calls("decision") > 0 => weight_loads = 1

(***************************************************************************)
(* C23: the rows of the monthly table.                                     *)
(***************************************************************************)
\* C23: the monthly table the means, stds and trends are computed from has
\* exactly one row per kept month, the kept months being the (at most 3)
\* months with the most bank transactions, and so at most 3 rows.
C23_OneRowPerKeptMonth ==
    \A k \in 1..Len(call_result) :
        LET table == call_result[k].ret.table
            top == TopMonths(call_args.bank)
        IN  /\ Len(table) = Cardinality(top)
            /\ Len(table) <= HeadMonths
            /\ {table[i].date : i \in 1..Len(table)} = top

\* the kept months themselves are as described, and every one of them has
\* its row
C23_KeptMonthsHaveRows ==
    \A k \in 1..Len(call_result) :
        LET table == call_result[k].ret.table
            top == TopMonths(call_args.bank)
        IN  /\ Cardinality(top) <= HeadMonths
            /\ \A m \in top : \A x \in Months \ top :
                  call_args.bank[m].n >= call_args.bank[x].n
            /\ top \subseteq {table[i].date : i \in 1..Len(table)}

(***************************************************************************)
(* C24: discretionary_share.                                               *)
(***************************************************************************)
\* a = b for two quotients
C24_QEq(a, b) == a.k = b.k /\ (a.k = "fin" => a.n * b.d = b.n * a.d)

\* C24: discretionary_share is the sum over the table of the
\* Entertainment, Travel and Dining spend columns divided by the sum of
\* total_card_spend; no other column contributes to the numerator.
C24_DiscretionaryShare ==
    \A k \in 1..Len(call_result) :
        LET table == call_result[k].ret.table
            cats == call_result[k].ret.categories \cap DiscretionaryWords
            spent == Sum([i \in 1..Len(table) |-> SumOver(table[i].spend, cats)])
            total == Sum(Column(table, "total_card_spend"))
        IN  total > 0 =>
                C24_QEq(call_result[k].ret.features.discretionary_share,
                    Quot("fin", spent, total))

\* without spend in any of the three categories nothing is selected that
\* is not 0, and the share is 0
C24_NoDiscretionarySpend ==
    \A k \in 1..Len(call_result) :
        LET table == call_result[k].ret.table
            total == Sum(Column(table, "total_card_spend"))
        IN  (total > 0 /\ "Dining" \notin call_result[k].ret.categories) =>
                C24_QEq(call_result[k].ret.features.discretionary_share,
                    Quot("fin", 0, 1))

(***************************************************************************)
(* C25: the balanced-region strategy.                                      *)
(***************************************************************************)
\* the scanner's view of s after the characters start..i: inside a string
\* or not, after a backslash or not, and the depth of the opening type
C25_Scan(s, start) ==
    LET opening == s[start]
        closing == IF opening = LB THEN RB ELSE RS
        sc[i \in (start - 1)..Len(s)] ==
            IF i = start - 1
            THEN [in_str |-> FALSE, esc |-> FALSE, depth |-> 0]
            ELSE LET p == sc[i - 1]
                 IN  IF p.in_str
                     THEN IF p.esc THEN [p EXCEPT !.esc = FALSE]
                          ELSE IF s[i] = BS THEN [p EXCEPT !.esc = TRUE]
                          ELSE IF s[i] = QT THEN [p EXCEPT !.in_str = FALSE]
                          ELSE p
                     ELSE IF s[i] = QT THEN [p EXCEPT !.in_str = TRUE]
                     ELSE IF s[i] = opening THEN [p EXCEPT !.depth = @ + 1]
                     ELSE IF s[i] = closing THEN [p EXCEPT !.depth = @ - 1]
                     ELSE p
    IN  sc

\* the positions at which a region opened at start is closed: a closing
\* bracket of the opening's type outside any string, with the depth at 0
C25_Ends(s, start) ==
    LET closing == IF s[start] = LB THEN RB ELSE RS
        sc == C25_Scan(s, start)
    IN  {i \in start..Len(s) :
            s[i] = closing /\ ~sc[i - 1].in_str /\ sc[i].depth = 0}

\* C25: when the strict parse and the fenced blocks gave nothing, the
\* region tried starts at the earliest { or [ of the trimmed text and ends
\* at the first position where, brackets inside double-quoted strings
\* ignored and backslash escapes honoured, the depth of the opening
\* bracket's type is back to 0.  The result is what that region parses to;
\* when there is no such region or it does not parse, no later region is
\* examined and the result is the raw_text wrapper.
C25_FirstBalancedRegion ==
    (/\ Returned
     /\ call_result[1].fn = "agent/utils"
     /\ call_args.type = "str"
     /\ ~Ret1.raised
     /\ ~JsonLoads(Strip(call_args.text)).ok
     /\ ParseFromFences(Strip(call_args.text)) = PyNone) =>
        LET s == Strip(call_args.text)
            brackets == {i \in 1..Len(s) : s[i] \in {LB, LS}}
            fallback == RawText(call_args.text)
        IN  IF brackets = {} THEN Ret1.value = fallback
            ELSE LET start == First(brackets)
                     ends == C25_Ends(s, start)
                 IN  IF ends = {} THEN Ret1.value = fallback
                     ELSE LET region == SubSeq(s, start, First(ends))
                          IN  IF JsonValid(region)
                              THEN Ret1.value = JsonLoads(region).value
                              ELSE Ret1.value = fallback

\* the first region, [}], does not parse; the region after it, [], would
C25_Witness ==
    /\ Returned
    /\ call_result[1].fn = "agent/utils"
    /\ call_args.type = "str"
    /\ call_args.text = <<WN, LS, RB, RS, LS, RS>>
    /\ JsonValid(<<LS, RS>>)
    /\ Ret1.value = RawText(call_args.text)

(***************************************************************************)
(* C26: the report stage ends the run.                                     *)
(***************************************************************************)
\* C26: no stage is invoked after the report stage, and when _call returns
\* the report stage has been invoked exactly once, as the last stage and
\* immediately after an evaluator verdict that was approve or was the
\* revise verdict that took retry_count above max_retries.
C26_ReportOnceAndLast ==
    /\ \A i \in 1..Len(trace) : trace[i].stage = "report" => i = Len(trace)
    /\ result.returned =>
          /\ Calls("report") = 1
          /\ Len(trace) >= 2
          /\ Last.stage = "report"
          /\ LET verdict == trace[Len(trace) - 1]
             IN  /\ verdict.stage = "evaluator"
                 /\ \/ verdict.action = "approve"
                    \/ /\ verdict.action \in ReviseActions
                       /\ verdict.rc = max_retries
                       /\ retry_count = max_retries + 1

\* a run that returned after its retries were used up, an unrecognised
\* verdict on the way
C26_Witness ==
    /\ result.returned
    /\ max_retries = 1
    /\ retry_count = 2
    /\ Verdicts({"approve"}) = 0
    /\ Verdicts({UnknownAction}) = 1
    /\ Last.stage = "report"

(***************************************************************************)
(* C27: the risk score of the decision record.                             *)
(***************************************************************************)
\* C27: the risk_score of a stored decision record is the scorer's output:
\* decide overwrites whatever risk_score the oracle's response holds, after
\* the first and after every later decision invocation of the run.
C27_RiskScoreFromScorer ==
    decision # NoDecision =>
        /\ decision.risk_score = RiskAssesment(artifacts).risk_score
        /\ decision.risk_score # "oracle"

\* a second decision invocation, after feedback, whose oracle response
\* came with a risk_score of its own
C27_Witness ==
    /\ Calls("decision") = 2
    /\ Last.stage = "decision"
    /\ lastPrompt.fb
    /\ pc = "loop"
    /\ decision.v = 2
    /\ decision.risk_score = "scorer"

(***************************************************************************)
(* C28: the decision that is returned.                                     *)
(***************************************************************************)
\* the revise verdicts after which the stage they asked for was invoked
C28_RevisionsExecuted ==
    {i \in 1..(Len(trace) - 1) :
        /\ trace[i].stage = "evaluator"
        /\ trace[i].action \in ReviseActions
        /\ trace[i + 1].stage = NextStep(trace[i].action, "evaluator")}

C28_AtReturn ==
    /\ max_retries >= 0 => Cardinality(C28_RevisionsExecuted) <= max_retries
    /\ result.returned =>
          LET verdict == trace[Len(trace) - 1]
          IN  /\ verdict.stage = "evaluator"
              /\ Last.stage = "report"
              /\ result.decision = decision.decision
              /\ verdict.action # "approve" =>
                    /\ verdict.action \in ReviseActions
                    /\ evaluation_result.action = verdict.action
                    /\ current_step = NextStep(verdict.action, "evaluator")
                    /\ Verdicts(ReviseActions) = max_retries + 1
                    /\ Cardinality(C28_RevisionsExecuted) = max_retries

\* the evaluator and the report stage leave the decision as it is, and
\* the return follows an evaluator invocation directly but for the report
C28_StepEffect ==
    LET invoked == Len(trace') = Len(trace) + 1
        stage == trace'[Len(trace')].stage
    IN  /\ (invoked /\ stage \in {"evaluator", "report"}) => decision' = decision
        /\ (result'.returned /\ ~result.returned) =>
              /\ invoked
              /\ stage = "report"
              /\ Last.stage = "evaluator"
              /\ result'.decision = decision.decision
        /\ C28_AtReturn'

\* C28: the decision returned and reported on is the one the last
\* evaluator invocation evaluated; when the retries are used up the stage
\* the final revise verdict asked for is not executed, so the returned
\* decision is one the last verdict did not approve, and at most
\* max_retries revisions are executed.
C28_LastEvaluatedDecisionReturned == [][C28_StepEffect]_vars

\* returned with the retries used up: the last verdict asked for new
\* profiles and the behavioral stage was not invoked again
C28_Witness ==
    /\ result.returned
    /\ max_retries = 1
    /\ evaluation_result.action = "revise_profiles"
    /\ current_step = "behavioral"
    /\ Calls("behavioral") = 1
    /\ Calls("decision") = 2
    /\ result.decision = decision.decision

(***************************************************************************)
(* C29: what a stage finds in the state when it is invoked.                *)
(***************************************************************************)
C29_Stages == {"behavioral", "decision", "evaluator"}

\* a step that invokes a stage finds its inputs in the state
C29_StepEffect ==
    LET invoked == Len(trace') = Len(trace) + 1
        stage == trace'[Len(trace')].stage
    IN  max_retries >= 0 =>
          /\ (invoked /\ stage = "decision") =>
                /\ Calls("behavioral") >= 1
                /\ behavioral_profiles # NoResp
                /\ user_features = "features"
          /\ (invoked /\ stage = "evaluator") =>
                /\ Calls("decision") >= 1
                /\ decision # NoDecision
          /\ (invoked /\ stage = "report") => Calls("evaluator") >= 1
          /\ current_step \in C29_Stages
          /\ current_step' \in C29_Stages

\* C29: for max_retries >= 0 the decision stage is never invoked before a
\* behavioral stage has stored behavioral_profiles and user_features, the
\* evaluator never before a decision is stored, the report stage never
\* before an evaluator invocation, and current_step is always behavioral,
\* decision or evaluator.
C29_StagePreconditions == [][C29_StepEffect]_vars

\* the shortest complete run: each stage once, the profiles unparseable
C29_Witness ==
    /\ max_retries = 0
    /\ Len(trace) = 4
    /\ Last.stage = "report"
    /\ Calls("evaluator") = 1
    /\ behavioral_profiles.shape = "raw"
    /\ decision.shape = "dict"
    /\ current_step = "evaluator"

(***************************************************************************)
(* C30: which feedback a re-invoked stage receives.                        *)
(***************************************************************************)
\* the evaluator invocations so far, by position in the trace
C30_Evaluations == {i \in 1..Len(trace) : trace[i].stage = "evaluator"}

\* C30: the first behavioral and the first decision invocation are called
\* without feedback; a later behavioral invocation follows a
\* revise_profiles verdict directly and is called with that verdict's
\* comments; a later decision invocation is called with the comments of
\* the most recent verdict, also when that verdict was revise_profiles.
C30_FeedbackReceived ==
    (Len(trace) > 0 /\ Last.stage \in {"behavioral", "decision"}) =>
        IF Calls(Last.stage) = 1
        THEN /\ comments_arg = CNone
             /\ C30_Evaluations = {}
        ELSE LET latest == CHOOSE i \in C30_Evaluations :
                               \A j \in C30_Evaluations : j <= i
             IN  /\ evaluation_result.action = trace[latest].action
                 /\ comments_arg = evaluation_result.comments
                 /\ Last.stage = "behavioral" =>
                       /\ latest = Len(trace) - 1
                       /\ trace[latest].action = "revise_profiles"
                 /\ Last.stage = "decision" =>
                       \/ latest = Len(trace) - 1
                       \/ /\ latest = Len(trace) - 2
                          /\ trace[latest].action = "revise_profiles"
                          /\ trace[Len(trace) - 1].stage = "behavioral"

\* a decision invocation that was handed the comments of a
\* revise_profiles verdict, the behavioral stage run in between
C30_Witness ==
    /\ Len(trace) > 0
    /\ Last.stage = "decision"
    /\ Calls("decision") = 2
    /\ Calls("behavioral") = 2
    /\ evaluation_result.action = "revise_profiles"
    /\ comments_arg.kind = "dict"
    /\ comments_arg = evaluation_result.comments

====
